---- MODULE Spec2Model ----
(***************************************************************************)
(* Model of the HR chatbot repository (src/seeddatabase.ts):                *)
(*   - callAgent: the two-node LangGraph workflow (agent / tools) compiled  *)
(*     with a MemorySaver checkpointer and invoked with recursionLimit 15;  *)
(*   - seedDatabase: the seeding script (delete, generate, insert, close).  *)
(*                                                                         *)
(* The graph runtime (StateGraph / Pregel loop, ToolNode, MemorySaver) is   *)
(* library code.  It is modelled by its documented behaviour:               *)
(*   - the input is written at step -1, the __start__ node runs at step 0,  *)
(*     so the first user node (agent) runs at step 1;                       *)
(*   - after a node's writes are applied the checkpoint is saved and the    *)
(*     step is incremented; the loop then stops with GraphRecursionError    *)
(*     when step > recursionLimit, and only otherwise looks for next tasks  *)
(*     (no task left = done);                                               *)
(*   - ToolNode answers every tool call of the last message, in order, and  *)
(*     turns a failing call into a ToolMessage "Error: ...".                *)
(***************************************************************************)
EXTENDS Integers, Sequences, FiniteSets, TLC

\* ---------------------------------------------------------------- bounds
MaxToolCalls == 2      \* tool calls the model may request in one message
MaxToolFailures == 1   \* failing tool calls explored in one run
MaxMultiCallTurns == 1 \* model answers with more than one tool call explored in one run
MaxRuns == 2           \* callAgent invocations explored in one process
MaxRecords == 3        \* records the generator may return
MaxOldDocs == 2        \* documents in the collection before seeding

\* ------------------------------------------------------- program constants
RecursionLimit == 15   \* { recursionLimit: 15, ... }

Sessions == {"s1", "s2"}
Queries == {"q1", "q2"}
Contents == {"a1", "a2"}
ToolName == "employee_lookup"

VARIABLES
    pc,           \* position of callAgent: idle, agent, tools, returned, thrown
    thread,       \* thread_id of the current call
    messages,     \* the messages channel of the graph state
    checkpointer, \* the MemorySaver of the current call: thread_id -> messages
    step,         \* superstep counter of the Pregel loop
    modelCalls,   \* model.invoke calls made by the current call
    toolTurns,    \* ToolNode executions of the current call
    toolFailures, \* failing tool calls so far in the current call
    multiTurns,   \* answers with more than one tool call so far in the current call
    outcome,      \* none, answer, GraphRecursionError, ModelError
    answer,       \* the value callAgent returned
    runs,         \* callAgent invocations so far
    lastConv,     \* history: per session, the conversation its last call ended with
    seedPc,       \* position of seedDatabase
    collection,   \* documents of hr_database.employees
    syntheticData,\* what generateSyntheticData returned
    inserted,     \* records processed by the insertion loop
    clientOpen,   \* the MongoClient is connected
    failedAt,     \* the step of seedDatabase that threw, or none
    closed,       \* client.close() was called
    rethrown      \* seedDatabase's promise rejected

agentVars == <<pc, thread, messages, checkpointer, step, modelCalls, toolTurns,
               toolFailures, multiTurns, outcome, answer, runs, lastConv>>
seedVars == <<seedPc, collection, syntheticData, inserted, clientOpen, failedAt, closed, rethrown>>
vars == <<pc, thread, messages, checkpointer, step, modelCalls, toolTurns,
          toolFailures, multiTurns, outcome, answer, runs, lastConv,
          seedPc, collection, syntheticData, inserted, clientOpen, failedAt, closed, rethrown>>

\* --------------------------------------------------------------- messages
NoId == <<>>

HumanMessage(q) ==
    [role |-> "user", content |-> q, tool_calls |-> <<>>, tool_call_id |-> NoId]

AIMessage(c, calls) ==
    [role |-> "assistant", content |-> c, tool_calls |-> calls, tool_call_id |-> NoId]

ToolMessage(c, id) ==
    [role |-> "tool", content |-> c, tool_calls |-> <<>>, tool_call_id |-> id]

\* A tool call of the n-th model answer, i-th in the message; args is "valid"
\* when the arguments match the zod schema {query: string, n?: number}.
ToolCall(n, i, args) ==
    [id |-> <<n, i>>, name |-> ToolName, args |-> args]

Last(s) == s[Len(s)]

\* mutant of Reducer: the update replaces the channel instead of extending it
ReducerReplaces(x, y) == y

\* reducer: (x, y) => x.concat(y)
Reducer(x, y) == x \o y

\* ------------------------------------------------------------ checkpoints
\* new MemorySaver(): no thread has a checkpoint.
NewMemorySaver == [s \in Sessions |-> <<>>]

\* checkpointer.getTuple: the saved channel values of the thread (empty if none)
Load(cp, tid) == cp[tid]

\* mutant of Save: the superstep's checkpoint is not written
SaveDropped(cp, tid, msgs) == cp

\* checkpointer.put after a superstep
Save(cp, tid, msgs) == [cp EXCEPT ![tid] = msgs]

\* ------------------------------------------------------------- the graph
\* mutant of ShouldContinue: the graph ends after every model answer
ShouldContinueEnds(msgs) == "__end__"

\* shouldContinue: "tools" when the last message has tool calls, else "__end__"
ShouldContinue(msgs) ==
    IF Len(Last(msgs).tool_calls) > 0 THEN "tools" ELSE "__end__"

\* mutant of OutOfSteps: the recursion limit is never applied
NeverOutOfSteps(s) == FALSE

\* PregelLoop.tick: the loop is out of steps when step > recursionLimit
OutOfSteps(s) == s > RecursionLimit

\* mutant of Superstep: only the agent node's supersteps count against the limit
SuperstepModelOnly(node, s) == IF node = "agent" THEN s + 1 ELSE s

\* PregelLoop._putCheckpoint: every superstep, of either node, advances the step
Superstep(node, s) == s + 1

\* mutant of HandleToolErrors: ToolNode built with handleToolErrors: false
RethrowToolErrors == FALSE

\* ToolNode's handleToolErrors, true unless the constructor is told otherwise
HandleToolErrors == TRUE

\* employeeLookupTool through ToolNode: the content of the ToolMessage for one call.
\* Schema validation of the arguments fails before the function runs; a throwing
\* similarity search and a failed validation both become an error payload.
ToolOutput(call, throws) ==
    IF call.args # "valid" \/ throws THEN "Error" ELSE "result"

\* mutant of ToolNodeOutputs: the results come back in reverse order
ToolNodeOutputsReversed(calls, throws) ==
    [i \in 1..Len(calls) |->
        ToolMessage(ToolOutput(calls[Len(calls) + 1 - i], throws[Len(calls) + 1 - i]),
                    calls[Len(calls) + 1 - i].id)]

\* ToolNode: one ToolMessage per tool call of the last message, in request order
ToolNodeOutputs(calls, throws) ==
    [i \in 1..Len(calls) |-> ToolMessage(ToolOutput(calls[i], throws[i]), calls[i].id)]


\* PregelLoop.tick after a node's writes were applied and saved: out of steps
\* when the incremented step exceeds the limit (checked before the next tasks
\* are prepared), otherwise the conditional edge of the agent node decides.
AfterAgent(msgs, s) ==
    IF OutOfSteps(s) THEN "out_of_steps"
    ELSE IF ShouldContinue(msgs) = "tools" THEN "tools" ELSE "done"

\* the edge tools -> agent
AfterTools(s) ==
    IF OutOfSteps(s) THEN "out_of_steps" ELSE "agent"

\* history: the conversation the call of the current thread ended with
EndWith(conv) == lastConv' = [lastConv EXCEPT ![thread] = conv]

\* app.invoke rejects with GraphRecursionError; callAgent does not catch it
Abort(conv) ==
    /\ pc' = "thrown"
    /\ outcome' = "GraphRecursionError"
    /\ EndWith(conv)

\* callAgent(client, query, thread_id) up to the first node: a new MemorySaver,
\* the graph compiled with it, the input appended to the thread's saved
\* messages by the reducer, the input checkpoint and the __start__ superstep.
CallAgent ==
    /\ pc = "idle"
    /\ \E q \in Queries, tid \in Sessions :
         LET cp == NewMemorySaver
             msgs == Reducer(Load(cp, tid), <<HumanMessage(q)>>)
         IN  /\ thread' = tid
             /\ messages' = msgs
             /\ checkpointer' = Save(cp, tid, msgs)
    /\ step' = 1
    /\ modelCalls' = 0
    /\ toolTurns' = 0
    /\ toolFailures' = 0
    /\ multiTurns' = 0
    /\ outcome' = "none"
    /\ answer' = ""
    /\ runs' = runs + 1
    /\ pc' = "agent"
    /\ UNCHANGED <<lastConv, seedVars>>

\* The agent node, model.invoke resolving: the model answers with final text or
\* with k tool calls, whose arguments may or may not match the schema.
AgentNodeWith(counts, kinds) ==
    /\ pc = "agent"
    /\ \E k \in counts, c \in Contents, a \in [1..MaxToolCalls -> kinds] :
         LET n == modelCalls + 1
             bad == Cardinality({i \in 1..k : a[i] # "valid"})
             multi == IF k > 1 THEN 1 ELSE 0
             result == IF k = 0 THEN AIMessage(c, <<>>)
                       ELSE AIMessage("", [i \in 1..k |-> ToolCall(n, i, a[i])])
             msgs == Reducer(messages, <<result>>)
             next == AfterAgent(msgs, Superstep("agent", step))
         IN  /\ k = 0 => \A i \in 1..MaxToolCalls : a[i] = "valid"
             /\ k > 0 => c = "a1"
             /\ \A i \in (k + 1)..MaxToolCalls : a[i] = "valid"
             /\ toolFailures + bad <= MaxToolFailures
             /\ toolFailures' = toolFailures + bad
             /\ multiTurns + multi <= MaxMultiCallTurns
             /\ multiTurns' = multiTurns + multi
             /\ messages' = msgs
             /\ checkpointer' = Save(checkpointer, thread, msgs)
             /\ step' = Superstep("agent", step)
             /\ modelCalls' = n
             /\ IF next = "out_of_steps" THEN Abort(msgs)
                ELSE /\ pc' = next
                     /\ UNCHANGED <<outcome, lastConv>>
    /\ UNCHANGED <<thread, toolTurns, answer, runs, seedVars>>

AgentNode == AgentNodeWith(0..MaxToolCalls, {"valid", "invalid"})

\* mutant of ModelFails: the failed model call is tried again
ModelFailsRetried ==
    /\ pc = "agent"
    /\ modelCalls' = modelCalls + 1
    /\ UNCHANGED <<pc, thread, messages, checkpointer, step, toolTurns, toolFailures,
                   multiTurns, outcome, answer, runs, lastConv, seedVars>>

\* The agent node, model.invoke rejecting: the node throws, its writes are not
\* applied, app.invoke and callAgent reject with the model's error.
ModelFails ==
    /\ pc = "agent"
    /\ modelCalls' = modelCalls + 1
    /\ pc' = "thrown"
    /\ outcome' = "ModelError"
    /\ EndWith(messages)
    /\ UNCHANGED <<thread, messages, checkpointer, step, toolTurns, toolFailures,
                   multiTurns, answer, runs, seedVars>>

\* The tools node: ToolNode runs every tool call of the last message; a call
\* whose search throws or whose arguments fail validation yields an error message.
ToolsNodeWith(throwing) ==
    /\ pc = "tools"
    /\ LET calls == Last(messages).tool_calls
           k == Len(calls)
       IN \E throws \in [1..k -> throwing] :
            LET thrown == Cardinality({i \in 1..k : throws[i]})
                failed == \E i \in 1..k : ToolOutput(calls[i], throws[i]) = "Error"
                msgs == Reducer(messages, ToolNodeOutputs(calls, throws))
                next == AfterTools(Superstep("tools", step))
            IN  /\ \A i \in 1..k : throws[i] => calls[i].args = "valid"
                /\ toolFailures + thrown <= MaxToolFailures
                /\ toolFailures' = toolFailures + thrown
                /\ toolTurns' = toolTurns + 1
                /\ IF failed /\ ~HandleToolErrors
                   THEN \* the node throws: no writes, app.invoke rejects
                        /\ pc' = "thrown"
                        /\ outcome' = "ToolError"
                        /\ EndWith(messages)
                        /\ UNCHANGED <<messages, checkpointer, step>>
                   ELSE /\ messages' = msgs
                        /\ checkpointer' = Save(checkpointer, thread, msgs)
                        /\ step' = Superstep("tools", step)
                        /\ IF next = "out_of_steps" THEN Abort(msgs)
                           ELSE /\ pc' = next
                                /\ UNCHANGED <<outcome, lastConv>>
    /\ UNCHANGED <<thread, modelCalls, multiTurns, answer, runs, seedVars>>

ToolsNode == ToolsNodeWith(BOOLEAN)

\* callAgent after app.invoke resolved: the content of the last message
Return ==
    /\ pc = "done"
    /\ answer' = Last(messages).content
    /\ outcome' = "answer"
    /\ pc' = "returned"
    /\ EndWith(messages)
    /\ UNCHANGED <<thread, messages, checkpointer, step, modelCalls, toolTurns,
                   toolFailures, multiTurns, runs, seedVars>>

\* the caller makes another call in the same process
NextCall ==
    /\ pc \in {"returned", "thrown"}
    /\ runs < MaxRuns
    /\ pc' = "idle"
    /\ UNCHANGED <<thread, messages, checkpointer, step, modelCalls, toolTurns,
                   toolFailures, multiTurns, outcome, answer, runs, lastConv, seedVars>>

\* a model stub that asks for at most one well-formed tool call, tools that work
StubAgentNode == AgentNodeWith({0, 1}, {"valid"})
StubToolsNode == ToolsNodeWith({FALSE})

AgentInit ==
    /\ pc = "idle"
    /\ thread = "s1"
    /\ messages = <<>>
    /\ checkpointer = NewMemorySaver
    /\ step = 0
    /\ modelCalls = 0
    /\ toolTurns = 0
    /\ toolFailures = 0
    /\ multiTurns = 0
    /\ outcome = "none"
    /\ answer = ""
    /\ runs = 0
    /\ lastConv = [s \in Sessions |-> <<>>]

SeedIdle ==
    /\ seedPc = "idle"
    /\ collection = <<>>
    /\ syntheticData = <<>>
    /\ inserted = 0
    /\ clientOpen = FALSE
    /\ failedAt = "none"
    /\ closed = FALSE
    /\ rethrown = FALSE

Init == AgentInit /\ SeedIdle

\* one call of callAgent, any model and tool behaviour
Next ==
    \/ CallAgent
    \/ AgentNode
    \/ ModelFails
    \/ ToolsNode
    \/ Return

Spec == Init /\ [][Next]_vars

\* several calls in one process
NextSessions ==
    \/ CallAgent
    \/ StubAgentNode
    \/ ModelFails
    \/ StubToolsNode
    \/ Return
    \/ NextCall

SpecSessions == Init /\ [][NextSessions]_vars


\* ------------------------------------------------------------ seedDatabase
Records == {"E001", "E002"}

\* what the model may answer to the generation prompt: text that is or is not
\* JSON, whose records do or do not match EmployeeSchema
Responses ==
    { [json |-> j, schema |-> m, data |-> d] :
        j \in BOOLEAN, m \in BOOLEAN,
        d \in UNION { [1..n -> Records] : n \in 0..MaxRecords } }

\* generateSyntheticData: JSON.parse, then parser.parse against the schema;
\* either failure is rethrown as "Failed to parse generated data"
ParseFails(r) == ~r.json \/ ~r.schema

\* createEmployeeSummary
CreateEmployeeSummary(record) == <<"summary", record>>

\* recordsWithSummaries: { pageContent, metadata }
RecordWithSummary(record) ==
    [pageContent |-> CreateEmployeeSummary(record), metadata |-> record]

OldDoc(i) == [pageContent |-> <<"old", i>>, metadata |-> "old"]

\* mutant of DeleteMany: the old documents are kept
DeleteNone(coll) == coll

\* collection.deleteMany({})
DeleteMany(coll) == <<>>

\* MongoDBAtlasVectorSearch.fromDocuments([record], ...)
FromDocuments(coll, doc) == Append(coll, doc)

\* catch (error) { console.error(...) }: the error is logged, not thrown again
CatchRethrows == FALSE

\* the catch block, entered from the step that threw
Catch(at) ==
    /\ failedAt' = at
    /\ rethrown' = CatchRethrows
    /\ seedPc' = "finally"

\* the head of the for loop over recordsWithSummaries
LoopHead(n, data) == IF n < Len(data) THEN "insert" ELSE "finally"

\* await client.connect()
Connect ==
    /\ seedPc = "connect"
    /\ clientOpen' = TRUE
    /\ seedPc' = "ping"
    /\ UNCHANGED <<agentVars, collection, syntheticData, inserted, failedAt, closed, rethrown>>

\* await client.db("admin").command({ ping: 1 })
Ping ==
    /\ seedPc = "ping"
    /\ seedPc' = "delete"
    /\ UNCHANGED <<agentVars, collection, syntheticData, inserted, clientOpen,
                   failedAt, closed, rethrown>>

\* await collection.deleteMany({})
DeleteAll ==
    /\ seedPc = "delete"
    /\ collection' = DeleteMany(collection)
    /\ seedPc' = "generate"
    /\ UNCHANGED <<agentVars, syntheticData, inserted, clientOpen, failedAt, closed, rethrown>>

\* const syntheticData = await generateSyntheticData(), llm.invoke resolving;
\* then the summaries (Promise.all) and the head of the insertion loop
Generate ==
    /\ seedPc = "generate"
    /\ \E r \in Responses :
         IF ParseFails(r)
         THEN /\ Catch("generate")
              /\ UNCHANGED syntheticData
         ELSE /\ syntheticData' = r.data
              /\ seedPc' = LoopHead(0, r.data)
              /\ UNCHANGED <<failedAt, rethrown>>
    /\ UNCHANGED <<agentVars, collection, inserted, clientOpen, closed>>

\* one iteration of the insertion loop, fromDocuments resolving
InsertRecord ==
    /\ seedPc = "insert"
    /\ collection' = FromDocuments(collection, RecordWithSummary(syntheticData[inserted + 1]))
    /\ inserted' = inserted + 1
    /\ seedPc' = LoopHead(inserted + 1, syntheticData)
    /\ UNCHANGED <<agentVars, syntheticData, clientOpen, failedAt, closed, rethrown>>

\* an awaited call of the try block rejects: connect, ping, deleteMany,
\* llm.invoke or fromDocuments
SeedFails ==
    /\ seedPc \in {"connect", "ping", "delete", "generate", "insert"}
    /\ Catch(seedPc)
    /\ UNCHANGED <<agentVars, collection, syntheticData, inserted, clientOpen, closed>>

\* finally { await client.close() }
Finally ==
    /\ seedPc = "finally"
    /\ clientOpen' = FALSE
    /\ closed' = TRUE
    /\ seedPc' = "finished"
    /\ UNCHANGED <<agentVars, collection, syntheticData, inserted, failedAt, rethrown>>

\* seedDatabase() is called on a collection that holds some documents
SeedInit ==
    /\ AgentInit
    /\ seedPc = "connect"
    /\ \E n \in 0..MaxOldDocs : collection = [i \in 1..n |-> OldDoc(i)]
    /\ syntheticData = <<>>
    /\ inserted = 0
    /\ clientOpen = FALSE
    /\ failedAt = "none"
    /\ closed = FALSE
    /\ rethrown = FALSE

NextSeed ==
    \/ Connect
    \/ Ping
    \/ DeleteAll
    \/ Generate
    \/ InsertRecord
    \/ SeedFails
    \/ Finally

SpecSeed == SeedInit /\ [][NextSeed]_vars


\* ================================================================== claims
IsPrefix(s, t) == Len(s) <= Len(t) /\ SubSeq(t, 1, Len(s)) = s
Ended == pc \in {"returned", "thrown"}
StepLimitExceeded == outcome = "GraphRecursionError"
ModelInvocationFailure == outcome = "ModelError"
HasToolCalls(m) == m.role = "assistant" /\ Len(m.tool_calls) > 0
IsFinalAnswer(m) == m.role = "assistant" /\ Len(m.tool_calls) = 0

\* model invocations a run can make under the limit: agent runs at odd steps
ModelTurnBudget == (RecursionLimit + 1) \div 2
ToolTurnBudget == RecursionLimit \div 2

\* C1: a call for session s starts its first model turn with the conversation
\* the previous call for s ended with, followed by the new user message (the
\* empty conversation followed by it when s was never used).
C1_Continuation ==
    (pc = "agent" /\ modelCalls = 0) =>
        \E q \in Queries : messages = lastConv[thread] \o <<HumanMessage(q)>>

\* C2: a run never makes more than 15 model invocations; its transitions are
\* bounded by the limit, a running loop can always take its next step, and a run
\* only ends with an answer, a model failure or, past the limit, the
\* step-limit error.
C2_StepBound ==
    /\ modelCalls <= RecursionLimit
    /\ modelCalls + toolTurns <= RecursionLimit
    /\ pc \in {"agent", "tools"} =>
          /\ step <= RecursionLimit
          /\ ENABLED (AgentNode \/ ModelFails \/ ToolsNode)
    /\ pc = "done" => ENABLED Return
    /\ pc = "returned" => outcome = "answer"
    /\ pc = "thrown" => StepLimitExceeded \/ ModelInvocationFailure
    /\ StepLimitExceeded => pc = "thrown" /\ step > RecursionLimit

C2_Witness == pc = "thrown" /\ StepLimitExceeded

\* C3 as stated: the budget counts model turns only, so an abort comes after
\* exactly 15 model invocations and a final answer at any invocation up to the
\* 15th ends the run with that answer.
C3_ModelTurnsOnly ==
    /\ StepLimitExceeded => modelCalls = RecursionLimit
    /\ (Ended /\ modelCalls <= RecursionLimit /\ IsFinalAnswer(Last(messages))) =>
          outcome = "answer"

\* C3 amended: the budget counts model turns and tool turns together: an abort
\* comes after exactly 8 model invocations and 7 tool turns, and a final answer
\* at any invocation up to the 7th ends the run with that answer.
C3_AllTurnsCount ==
    /\ StepLimitExceeded =>
          /\ modelCalls = ModelTurnBudget
          /\ toolTurns = ToolTurnBudget
          /\ modelCalls + toolTurns = RecursionLimit
    /\ (Ended /\ modelCalls < ModelTurnBudget /\ IsFinalAnswer(Last(messages))) =>
          outcome = "answer"

C3_Witness ==
    /\ StepLimitExceeded
    /\ modelCalls = 8
    /\ toolTurns = 7
    /\ HasToolCalls(Last(messages))

\* C4: whenever the model is about to be invoked, every assistant message with
\* k >= 1 tool calls is followed by exactly k tool messages, the i-th answering
\* the i-th call.
C4_Alternation ==
    pc = "agent" =>
        \A i \in 1..Len(messages) :
            HasToolCalls(messages[i]) =>
                LET k == Len(messages[i].tool_calls)
                IN  /\ i + k <= Len(messages)
                    /\ \A j \in 1..k :
                          /\ messages[i + j].role = "tool"
                          /\ messages[i + j].tool_call_id = messages[i].tool_calls[j].id
                    /\ i + k < Len(messages) => messages[i + k + 1].role # "tool"

C4_Witness ==
    /\ pc = "agent"
    /\ \E i \in 1..Len(messages) :
          /\ Len(messages[i].tool_calls) = 2
          /\ messages[i + 1].content = "result"
          /\ messages[i + 2].content = "Error"

\* C5: a tool turn always hands over to the next model turn: it appends one tool
\* message per call, an error payload for each call that failed (bad arguments
\* or a throwing search), and the run does not end there.
C5_ToolFailureNotFatal ==
    [][pc = "tools" =>
        LET calls == Last(messages).tool_calls
            k == Len(calls)
            n == Len(messages)
            invalid == {i \in 1..k : calls[i].args # "valid"}
        IN  /\ pc' = "agent"
            /\ outcome' = "none"
            /\ Len(messages') = n + k
            /\ \A i \in 1..k :
                  /\ messages'[n + i].role = "tool"
                  /\ messages'[n + i].tool_call_id = calls[i].id
                  /\ i \in invalid => messages'[n + i].content = "Error"
            /\ Cardinality({i \in 1..k : messages'[n + i].content = "Error"})
                  = Cardinality(invalid) + (toolFailures' - toolFailures)]_vars

C5_Witness ==
    /\ pc = "agent"
    /\ Last(messages).role = "tool"
    /\ \E i \in 1..Len(messages), j \in 1..MaxToolCalls :
          /\ j <= Len(messages[i].tool_calls)
          /\ messages[i].tool_calls[j].args = "valid"
          /\ i + j <= Len(messages)
          /\ messages[i + j] = ToolMessage("Error", messages[i].tool_calls[j].id)

\* C6: a model invocation that appends no message ends the run at once with the
\* model's error, which is not the step-limit error; after it nothing changes:
\* no further model invocation, no tool turn, no message.
C6_ModelFailureFatal ==
    [][/\ (pc = "agent" /\ modelCalls' # modelCalls /\ messages' = messages) =>
              /\ pc' = "thrown"
              /\ outcome' = "ModelError"
              /\ outcome' # "GraphRecursionError"
       /\ ModelInvocationFailure =>
              UNCHANGED <<pc, outcome, messages, modelCalls, toolTurns, checkpointer>>]_vars

C6_Witness ==
    /\ pc = "thrown"
    /\ ModelInvocationFailure
    /\ modelCalls = 2
    /\ toolTurns = 1
    /\ Last(messages).role = "tool"

\* C7 as stated: after a model turn the loop is in the tool turn exactly when
\* the answer has tool calls and done otherwise; a returned string is the
\* content of the last message, an assistant message without tool calls.
C7_Routing ==
    /\ (Len(messages) > 0 /\ Last(messages).role = "assistant") =>
          /\ pc = "tools" <=> HasToolCalls(Last(messages))
          /\ pc \in {"done", "returned"} <=> IsFinalAnswer(Last(messages))
    /\ pc = "returned" =>
          /\ answer = Last(messages).content
          /\ IsFinalAnswer(Last(messages))

\* C7 amended: the same, for a model turn that does not exhaust the step budget.
C7_RoutingWithinBudget ==
    /\ (Len(messages) > 0 /\ Last(messages).role = "assistant" /\ ~StepLimitExceeded) =>
          /\ pc = "tools" <=> HasToolCalls(Last(messages))
          /\ pc \in {"done", "returned"} <=> IsFinalAnswer(Last(messages))
    /\ pc = "returned" =>
          /\ answer = Last(messages).content
          /\ IsFinalAnswer(Last(messages))

C7_Witness ==
    /\ pc = "returned"
    /\ toolTurns >= 1
    /\ answer = "a2"

\* C8: once a run has started, the checkpoint stored under its thread equals
\* the run's in-memory conversation after every completed step, also when the
\* run has been aborted; no other thread's checkpoint is written.
C8_PersistenceFidelity ==
    pc # "idle" =>
        /\ Load(checkpointer, thread) = messages
        /\ \A s \in Sessions \ {thread} : Load(checkpointer, s) = <<>>

C8_Witness ==
    /\ pc = "thrown"
    /\ ModelInvocationFailure
    /\ Len(messages) >= 4
    /\ Load(checkpointer, thread) = messages

\* C9: within a run every step leaves the conversation a prefix of the new one;
\* a model turn appends at most one message, an assistant message, a tool turn
\* appends tool messages only, and nothing else touches the conversation.
C9_AppendOnly ==
    [][runs' = runs =>
        /\ IsPrefix(messages, messages')
        /\ pc = "agent" =>
              /\ Len(messages') <= Len(messages) + 1
              /\ Len(messages') = Len(messages) + 1 => Last(messages').role = "assistant"
        /\ pc = "tools" =>
              /\ Len(messages') = Len(messages) + Len(Last(messages).tool_calls)
              /\ \A i \in (Len(messages) + 1)..Len(messages') : messages'[i].role = "tool"
        /\ pc \notin {"agent", "tools"} => messages' = messages]_vars

C9_Witness ==
    /\ pc = "returned"
    /\ Len(messages) >= 6

\* C10: generation starts on an empty collection; when seedDatabase has
\* finished, a failed generation has left the collection empty and a failed
\* insertion of record i has left exactly the records 1..i-1; the error was
\* not thrown again, and closing the client was the last thing done.
C10_SeedingNotAtomic ==
    /\ seedPc = "generate" => collection = <<>>
    /\ closed <=> seedPc = "finished"
    /\ seedPc = "finished" =>
          /\ ~clientOpen
          /\ ~rethrown
          /\ failedAt = "generate" => collection = <<>> /\ inserted = 0
          /\ failedAt = "insert" =>
                /\ inserted < Len(syntheticData)
                /\ collection = [i \in 1..inserted |-> RecordWithSummary(syntheticData[i])]

C10_Witness ==
    /\ seedPc = "finished"
    /\ failedAt = "insert"
    /\ inserted = 2
    /\ Len(collection) = 2

====
